---- MODULE Spec2Model ----
(***************************************************************************)
(* Model of tools/create_demo_model.py: one invocation of the script runs  *)
(* create_demo_model, create_vocabulary and test_model in that order and   *)
(* leaves two files, sms_classifier.tflite and vocab.txt, in the working   *)
(* directory.  Invocations are processes that share the directory.         *)
(*                                                                         *)
(*   Spec      invocations run one at a time, one after the other          *)
(*   SpecConc  invocations may overlap in the same directory               *)
(*   SpecEdit  as Spec, over edited category lists (the numeral list       *)
(*             lengthened or shortened)                                    *)
(***************************************************************************)
EXTENDS Integers, Sequences, FiniteSets, TLC

VARIABLES
    keywords,      \* create_vocabulary's category lists, <<name, words>> in dict order
    fs,            \* the working directory: path -> [exists, data]
    pc,            \* per invocation: the statement it is about to execute
    runs,          \* invocations started so far
    run,           \* per invocation: its number (stands for its random weights)
    tflite_model,  \* per invocation: converter.convert()'s bytes
    model_path,    \* main's model_path
    vocab,         \* create_vocabulary's list
    vocab_path,    \* main's vocab_path
    test_path,     \* test_model's parameter
    interpreter,   \* what tf.lite.Interpreter read from test_path
    err,           \* the exception raised in this invocation, if any
    out,           \* console output, as the sequence of milestones printed
    hist           \* observations: line count of vocab.txt before the first run
                   \* and after every completed create_vocabulary

vars == <<keywords, fs, pc, runs, run, tflite_model, model_path, vocab,
          vocab_path, test_path, interpreter, err, out, hist>>

---------------------------------------------------------------------------
(* Bounds *)

MaxRuns == 2         \* invocations per behaviour
OldLines == 5003     \* lines of a vocab.txt left by an earlier, different tool
EditSpread == 2      \* edited lists reach capacity - EditSpread .. capacity + EditSpread

Procs == {1, 2}
Shell == CHOOSE p \in Procs : \A q \in Procs : p <= q

---------------------------------------------------------------------------
(* create_demo_model's parameters *)

vocab_size == 5000
embedding_dim == 32
max_length == 128
num_categories == 8

ModelFileName == "sms_classifier.tflite"
VocabFileName == "vocab.txt"

NL == "\n"

\* Locals not yet assigned
NoPath == ""
NoData == <<>>
NoErr == [fn |-> "", op |-> "", exc |-> "", caught |-> FALSE]

---------------------------------------------------------------------------
(* create_vocabulary: the category lists and the list built from them *)

str(i) == ToString(i)

\* [str(i) for i in range(n)]
Numerals(n) == [k \in 1..n |-> str(k - 1)]

NumeralCount == 100

Keywords ==
    << <<"special_tokens", <<"[PAD]", "[UNK]">> >>,
       <<"otp", <<"otp", "code", "verify", "verification", "authentication",
                  "pin", "passcode", "confirm", "security", "temporary">> >>,
       <<"banking", <<"bank", "account", "balance", "credited", "debited",
                      "transaction", "atm", "withdrawal", "deposit",
                      "statement">> >>,
       <<"finance", <<"payment", "invoice", "due", "bill", "loan", "emi",
                      "insurance", "credit", "card", "stock", "investment">> >>,
       <<"offers", <<"offer", "discount", "sale", "deal", "save", "flat",
                     "off", "special", "price", "limited", "hurry">> >>,
       <<"coupons", <<"coupon", "promo", "voucher", "redeem", "cashback",
                      "reward", "points", "gift">> >>,
       <<"common", <<"dear", "customer", "your", "the", "is", "for", "and",
                     "to", "from", "on", "at", "in", "with", "by", "as",
                     "this", "that", "have", "has", "will", "can", "get",
                     "now", "today", "call", "visit", "click", "reply",
                     "message", "sms", "alert", "notification", "update">> >>,
       <<"numbers", Numerals(NumeralCount)>> >>

\* for category, words in keywords.items(): vocab.extend(words)
RECURSIVE FlattenFrom(_, _)
FlattenFrom(kw, k) ==
    IF k > Len(kw) THEN <<>> ELSE kw[k][2] \o FlattenFrom(kw, k + 1)

FlattenReversed(kw) == FlattenFrom([k \in 1..Len(kw) |-> kw[Len(kw) + 1 - k]], 1)

Flatten(kw) == FlattenFrom(kw, 1)

TargetTokens == 5000

FillerTokenFromZero(i, n) == "token_" \o str(i - n)

FillerTokenModulo(i, n) == "token_" \o str(i % n)

\* f'token_{i}', appended when the list holds n hand-authored tokens
FillerToken(i, n) == "token_" \o str(i)

PadFillersShort(v) ==
    v \o [j \in 1..(IF TargetTokens - 1 > Len(v) THEN TargetTokens - 1 - Len(v) ELSE 0)
            |-> FillerToken(Len(v) + j - 1, Len(v))]

\* for i in range(len(vocab), 5000): vocab.append(f'token_{i}')
PadFillers(v) ==
    v \o [j \in 1..(IF TargetTokens > Len(v) THEN TargetTokens - Len(v) ELSE 0)
            |-> FillerToken(Len(v) + j - 1, Len(v))]

\* '\n'.join(vocab): the tokens with a line break between each two
Join(v) ==
    [k \in 1..(IF Len(v) = 0 THEN 0 ELSE 2 * Len(v) - 1)
        |-> IF k % 2 = 1 THEN v[(k + 1) \div 2] ELSE NL]

\* The lines of a text file: empty text has none, otherwise one more than its
\* line breaks.
LineCount(text) ==
    IF Len(text) = 0 THEN 0
    ELSE Cardinality({k \in 1..Len(text) : text[k] = NL}) + 1

\* No token of the model holds a line break, so the lines of a text are the
\* pieces between the breaks Join put in.
Lines(text) == [i \in 1..LineCount(text) |-> text[2 * i - 1]]

---------------------------------------------------------------------------
(* Files *)

Absent == [exists |-> FALSE, data |-> <<>>]

OpenWithoutTruncate(file) == [exists |-> TRUE, data |-> file.data]

\* open(path, 'w') and open(path, 'wb'): create or truncate
OpenTruncate(file) == [exists |-> TRUE, data |-> <<>>]

\* f.write(data) on a handle at offset 0: the bytes replace what is there and
\* anything beyond them stays
WriteAtStart(file, data) ==
    [exists |-> TRUE,
     data |-> data \o SubSeq(file.data, Len(data) + 1, Len(file.data))]

BlobArgumentsSwapped(r) ==
    << [part |-> "header", rows |-> embedding_dim, dim |-> vocab_size,
        input_shape |-> <<1, max_length>>,
        output_shape |-> <<1, num_categories>>],
       [part |-> "weights", seed |-> r] >>

\* What the converter returns: the graph's header (Embedding(vocab_size,
\* embedding_dim, input_length=max_length), the output layer) and its weights.
Blob(r) ==
    << [part |-> "header", rows |-> vocab_size, dim |-> embedding_dim,
        input_shape |-> <<1, max_length>>,
        output_shape |-> <<1, num_categories>>],
       [part |-> "weights", seed |-> r] >>

\* tf.lite.Interpreter accepts the file only when all of it is there.
Loadable(file) ==
    /\ file.exists
    /\ Len(file.data) = 2
    /\ file.data[1].part = "header"
    /\ file.data[2].part = "weights"

EmbeddingRows(file) == file.data[1].rows

FileAt(path) == IF path \in DOMAIN fs THEN fs[path] ELSE Absent

---------------------------------------------------------------------------
(* Exceptions *)

\* Classes derived from Exception that the framework and the file calls raise
FrameworkErrors == {"ValueError", "RuntimeError"}
FileErrors == {"OSError"}
ExceptionClasses == FrameworkErrors \cup FileErrors

CaughtOnlyValueError(fn, e) == fn = "test_model" /\ e = "ValueError"

CaughtEverywhere(fn, e) == e \in ExceptionClasses

\* the script's one handler: test_model's try ... except Exception
Caught(fn, e) == fn = "test_model" /\ e \in ExceptionClasses

MainAfterTestFirst(fn) ==
    CASE fn = "create_demo_model" -> "t_load"
      [] fn = "test_model" -> "v_build"
      [] fn = "create_vocabulary" -> "banner"

\* main: create_demo_model(), create_vocabulary(), test_model(), the banner
MainAfter(fn) ==
    CASE fn = "create_demo_model" -> "v_build"
      [] fn = "create_vocabulary" -> "t_load"
      [] fn = "test_model" -> "banner"

\* An exception raised by op inside fn: handled by test_model's handler, which
\* prints the warning and returns to main, or propagated out of main.
Raise(p, fn, op, e) ==
    IF Caught(fn, e)
    THEN /\ err' = [err EXCEPT ![p] = [fn |-> fn, op |-> op, exc |-> e, caught |-> TRUE]]
         /\ out' = [out EXCEPT ![p] = Append(@, "warning")]
         /\ pc' = [pc EXCEPT ![p] = MainAfter(fn)]
    ELSE /\ err' = [err EXCEPT ![p] = [fn |-> fn, op |-> op, exc |-> e, caught |-> FALSE]]
         /\ out' = [out EXCEPT ![p] = Append(@, "traceback")]
         /\ pc' = [pc EXCEPT ![p] = "crashed"]

\* A statement of fn completed: the milestone it prints, if any, and the next
\* statement.
Proceed(p, printed, next) ==
    /\ err' = err
    /\ out' = [out EXCEPT ![p] = @ \o printed]
    /\ pc' = [pc EXCEPT ![p] = next]

---------------------------------------------------------------------------
(* Initial states *)

Running(p) == pc[p] \notin {"idle", "exited", "crashed"}

ExitStatus(p) ==
    CASE pc[p] = "exited" -> 0
      [] pc[p] = "crashed" -> 1
      [] OTHER -> -1

InitialVocabFiles ==
    { Absent,
      [exists |-> TRUE, data |-> Join(<<"hello", "world", "token_7">>)],
      [exists |-> TRUE, data |-> Join([i \in 1..OldLines |-> "old_" \o str(i)])] }

InitialModelFiles ==
    { Absent,
      [exists |-> TRUE, data |-> Blob(0)],
      [exists |-> TRUE, data |-> SubSeq(Blob(0), 1, 1)] }

InitProcs ==
    /\ pc = [p \in Procs |-> "idle"]
    /\ runs = 0
    /\ run = [p \in Procs |-> 0]
    /\ tflite_model = [p \in Procs |-> NoData]
    /\ model_path = [p \in Procs |-> NoPath]
    /\ vocab = [p \in Procs |-> NoData]
    /\ vocab_path = [p \in Procs |-> NoPath]
    /\ test_path = [p \in Procs |-> NoPath]
    /\ interpreter = [p \in Procs |-> NoData]
    /\ err = [p \in Procs |-> NoErr]
    /\ out = [p \in Procs |-> <<>>]

InitFiles(mf, vf) ==
    /\ fs = [path \in {ModelFileName, VocabFileName} |->
                IF path = ModelFileName THEN mf ELSE vf]
    /\ hist = [before |-> LineCount(vf.data), after |-> <<>>]

Init ==
    /\ keywords = Keywords
    /\ \E mf \in InitialModelFiles, vf \in InitialVocabFiles : InitFiles(mf, vf)
    /\ InitProcs

\* Overlapping invocations, in a directory that holds no vocabulary yet
InitConc ==
    /\ keywords = Keywords
    /\ \E mf \in InitialModelFiles : InitFiles(mf, Absent)
    /\ InitProcs

\* The category lists with the numeral list of another length.
EditedKeywords(n) ==
    [k \in 1..Len(Keywords) |->
        IF Keywords[k][1] = "numbers" THEN <<"numbers", Numerals(n)>> ELSE Keywords[k]]

HandAuthoredWords == Len(Flatten(Keywords)) - NumeralCount

EditCounts ==
    {0, NumeralCount} \cup
    ((TargetTokens - HandAuthoredWords - EditSpread) ..
     (TargetTokens - HandAuthoredWords + EditSpread))

InitEdit ==
    /\ \E n \in EditCounts : keywords = EditedKeywords(n)
    /\ InitFiles(Absent, Absent)
    /\ InitProcs

---------------------------------------------------------------------------
(* One invocation: python3 create_demo_model.py *)

\* main's opening prints; a fresh process has none of the previous one's locals
Begin(p) ==
    /\ ~Running(p)
    /\ runs < MaxRuns
    /\ runs' = runs + 1
    /\ run' = [run EXCEPT ![p] = runs + 1]
    /\ tflite_model' = [tflite_model EXCEPT ![p] = NoData]
    /\ model_path' = [model_path EXCEPT ![p] = NoPath]
    /\ vocab' = [vocab EXCEPT ![p] = NoData]
    /\ vocab_path' = [vocab_path EXCEPT ![p] = NoPath]
    /\ test_path' = [test_path EXCEPT ![p] = NoPath]
    /\ interpreter' = [interpreter EXCEPT ![p] = NoData]
    /\ err' = [err EXCEPT ![p] = NoErr]
    /\ out' = [out EXCEPT ![p] = <<"header">>]
    /\ pc' = [pc EXCEPT ![p] = "m_build"]
    /\ UNCHANGED <<keywords, fs, hist>>

\* started from a shell while no other invocation is running
StartAlone(p) ==
    /\ \A q \in Procs : ~Running(q)
    /\ Begin(p)

\* started whatever the other invocations are doing
StartAnytime(p) == Begin(p)

\* create_demo_model, the Sequential model to converter.convert()
ModelBuild(p) ==
    /\ pc[p] = "m_build"
    /\ \/ /\ tflite_model' = [tflite_model EXCEPT ![p] = Blob(run[p])]
          /\ Proceed(p, <<>>, "m_open")
       \/ /\ \E e \in FrameworkErrors : Raise(p, "create_demo_model", "convert", e)
          /\ UNCHANGED tflite_model
    /\ UNCHANGED <<keywords, fs, runs, run, model_path, vocab, vocab_path,
                   test_path, interpreter, hist>>

\* with open(model_path, 'wb') as f
ModelOpen(p) ==
    /\ pc[p] = "m_open"
    /\ \/ /\ fs' = [fs EXCEPT ![ModelFileName] = OpenTruncate(@)]
          /\ Proceed(p, <<>>, "m_write")
       \/ /\ \E e \in FileErrors : Raise(p, "create_demo_model", "open", e)
          /\ UNCHANGED fs
    /\ UNCHANGED <<keywords, runs, run, tflite_model, model_path, vocab,
                   vocab_path, test_path, interpreter, hist>>

\* f.write(tflite_model), the size report and return model_path; a write that
\* fails leaves what it had written
ModelWrite(p) ==
    /\ pc[p] = "m_write"
    /\ \/ /\ fs' = [fs EXCEPT ![ModelFileName] = WriteAtStart(@, tflite_model[p])]
          /\ model_path' = [model_path EXCEPT ![p] = ModelFileName]
          /\ Proceed(p, <<"model_saved">>, MainAfter("create_demo_model"))
       \/ /\ \E n \in 0..(Len(tflite_model[p]) - 1) :
                fs' = [fs EXCEPT ![ModelFileName] =
                          WriteAtStart(@, SubSeq(tflite_model[p], 1, n))]
          /\ \E e \in FileErrors : Raise(p, "create_demo_model", "write", e)
          /\ UNCHANGED model_path
    /\ UNCHANGED <<keywords, runs, run, tflite_model, vocab, vocab_path,
                   test_path, interpreter, hist>>

\* create_vocabulary, the keywords dict to the padded list
VocabBuild(p) ==
    /\ pc[p] = "v_build"
    /\ vocab' = [vocab EXCEPT ![p] = PadFillers(Flatten(keywords))]
    /\ Proceed(p, <<>>, "v_open")
    /\ UNCHANGED <<keywords, fs, runs, run, tflite_model, model_path,
                   vocab_path, test_path, interpreter, hist>>

\* with open(vocab_path, 'w', encoding='utf-8') as f
VocabOpen(p) ==
    /\ pc[p] = "v_open"
    /\ \/ /\ fs' = [fs EXCEPT ![VocabFileName] = OpenTruncate(@)]
          /\ Proceed(p, <<>>, "v_write")
       \/ /\ \E e \in FileErrors : Raise(p, "create_vocabulary", "open", e)
          /\ UNCHANGED fs
    /\ UNCHANGED <<keywords, runs, run, tflite_model, model_path, vocab,
                   vocab_path, test_path, interpreter, hist>>

\* f.write('\n'.join(vocab)), the size report and return vocab_path
VocabWrite(p) ==
    /\ pc[p] = "v_write"
    /\ fs' = [fs EXCEPT ![VocabFileName] = WriteAtStart(@, Join(vocab[p]))]
    /\ vocab_path' = [vocab_path EXCEPT ![p] = VocabFileName]
    /\ hist' = [hist EXCEPT !.after = Append(@, LineCount(fs'[VocabFileName].data))]
    /\ Proceed(p, <<"vocab_saved">>, MainAfter("create_vocabulary"))
    /\ UNCHANGED <<keywords, runs, run, tflite_model, model_path, vocab,
                   test_path, interpreter>>

TestLoadLocked(p) ==
    /\ pc[p] = "t_load"
    /\ \A q \in Procs \ {p} : pc[q] # "m_write"
    /\ test_path' = [test_path EXCEPT ![p] = model_path[p]]
    /\ IF Loadable(FileAt(model_path[p]))
       THEN /\ interpreter' = [interpreter EXCEPT ![p] = FileAt(model_path[p]).data]
            /\ Proceed(p, <<>>, "t_infer")
       ELSE /\ Raise(p, "test_model", "Interpreter", "ValueError")
            /\ UNCHANGED interpreter
    /\ UNCHANGED <<keywords, fs, runs, run, tflite_model, model_path, vocab,
                   vocab_path, hist>>

\* test_model(model_path): tf.lite.Interpreter(model_path=model_path)
TestLoad(p) ==
    /\ pc[p] = "t_load"
    /\ test_path' = [test_path EXCEPT ![p] = model_path[p]]
    /\ IF Loadable(FileAt(model_path[p]))
       THEN /\ interpreter' = [interpreter EXCEPT ![p] = FileAt(model_path[p]).data]
            /\ Proceed(p, <<>>, "t_infer")
       ELSE /\ Raise(p, "test_model", "Interpreter", "ValueError")
            /\ UNCHANGED interpreter
    /\ UNCHANGED <<keywords, fs, runs, run, tflite_model, model_path, vocab,
                   vocab_path, hist>>

InferenceCalls == {"allocate_tensors", "set_tensor", "invoke"}

\* test_model, allocate_tensors() to the report of the output
TestInfer(p) ==
    /\ pc[p] = "t_infer"
    /\ \/ Proceed(p, <<"inference_ok">>, MainAfter("test_model"))
       \/ \E op \in InferenceCalls, e \in FrameworkErrors : Raise(p, "test_model", op, e)
    /\ UNCHANGED <<keywords, fs, runs, run, tflite_model, model_path, vocab,
                   vocab_path, test_path, interpreter, hist>>

\* main's setup instructions, then the process ends with status 0
Banner(p) ==
    /\ pc[p] = "banner"
    /\ Proceed(p, <<"banner">>, "exited")
    /\ UNCHANGED <<keywords, fs, runs, run, tflite_model, model_path, vocab,
                   vocab_path, test_path, interpreter, hist>>

Step(p) ==
    \/ ModelBuild(p)
    \/ ModelOpen(p)
    \/ ModelWrite(p)
    \/ VocabBuild(p)
    \/ VocabOpen(p)
    \/ VocabWrite(p)
    \/ TestLoad(p)
    \/ TestInfer(p)
    \/ Banner(p)

\* Runs one after the other are runs of one shell: it starts the next
\* invocation when the previous one has ended.
Next == \E p \in {Shell} : StartAlone(p) \/ Step(p)

NextConc == \E p \in Procs : StartAnytime(p) \/ Step(p)

Spec == Init /\ [][Next]_vars

SpecConc == InitConc /\ [][NextConc]_vars

SpecEdit == InitEdit /\ [][Next]_vars

---------------------------------------------------------------------------
(* Properties *)

\* vocab.txt holds what a completed create_vocabulary wrote: one has
\* completed and none is between its open and its write.
VocabFileWritten ==
    /\ Len(hist.after) > 0
    /\ \A q \in Procs : pc[q] # "v_write"

VocabLines == Lines(fs[VocabFileName].data)

HandAuthored == Flatten(keywords)

\* C1 as stated: every completed create_vocabulary leaves exactly 5000 lines
\* in vocab.txt, however many hand-authored keywords the category lists hold.
C1_AlwaysCapacity ==
    \A i \in 1..Len(hist.after) : hist.after[i] = 5000

\* C1 amended: every completed create_vocabulary leaves exactly 5000 lines in
\* vocab.txt provided the category lists hold at most 5000 keywords; with
\* more, it leaves one line per keyword.
C1_CapacityUnlessOverfull ==
    \A i \in 1..Len(hist.after) :
        hist.after[i] = IF Len(HandAuthored) <= 5000 THEN 5000 ELSE Len(HandAuthored)

C1_Witness ==
    /\ Len(hist.after) > 0
    /\ Len(HandAuthored) < 5000
    /\ Len(HandAuthored) # Len(Flatten(Keywords))
    /\ LineCount(fs[VocabFileName].data) = 5000

\* C2: a failure inside test_model (loading the file, allocating, setting the
\* input, invoking) never leaves test_model: it is caught, a warning is
\* printed, main goes on to the banner, and the process exits with status 0.
C2_SmokeTestNeverRaises ==
    \A p \in Procs :
        err[p].fn = "test_model" =>
            /\ err[p].caught
            /\ pc[p] \in {"banner", "exited"}
            /\ out[p][4] = "warning"
            /\ pc[p] = "banner" => ENABLED Banner(p)
            /\ pc[p] = "exited" =>
                  /\ ExitStatus(p) = 0
                  /\ out[p][Len(out[p])] = "banner"

C2_Witness ==
    \E p \in Procs :
        /\ pc[p] = "exited"
        /\ err[p].fn = "test_model"
        /\ err[p].op = "Interpreter"
        /\ ~Loadable(fs[ModelFileName])

\* C3: a failure while building, converting or writing the model propagates
\* out of main: the process ends with a traceback, nothing is retried, and
\* create_vocabulary, test_model and the banner never run in that invocation.
C3_ModelFailureFatal ==
    \A p \in Procs :
        err[p].fn = "create_demo_model" =>
            /\ ~err[p].caught
            /\ pc[p] = "crashed"
            /\ ExitStatus(p) = 1
            /\ out[p] = <<"header", "traceback">>
            /\ vocab[p] = NoData
            /\ vocab_path[p] = NoPath
            /\ test_path[p] = NoPath
            /\ interpreter[p] = NoData
            /\ ~ENABLED Step(p)

C3_Witness ==
    \E p \in Procs :
        /\ err[p].fn = "create_demo_model"
        /\ err[p].op = "write"
        /\ pc[p] = "crashed"
        /\ ~Loadable(fs[ModelFileName])

\* C4: once create_vocabulary has written vocab.txt, its first two lines are
\* '[PAD]' and '[UNK]', in that order.
C4_ControlTokensFirst ==
    VocabFileWritten =>
        LET L == VocabLines IN
        /\ L[1] = "[PAD]"
        /\ L[2] = "[UNK]"

C4_Witness ==
    /\ VocabFileWritten
    /\ Len(hist.after) = 2
    /\ LineCount(fs[VocabFileName].data) > 2

\* C5: within an invocation the model builder, the vocabulary builder and the
\* smoke tester run in that order, each once; the smoke tester gets the path
\* the model builder wrote, and when it starts the file at that path holds
\* all of the model this invocation wrote.
C5_LinearOrder ==
    \A p \in Procs :
        /\ pc[p] \in {"m_build", "m_open", "m_write"} => out[p] = <<"header">>
        /\ pc[p] \in {"v_build", "v_open", "v_write"} =>
              out[p] = <<"header", "model_saved">>
        /\ pc[p] \in {"t_load", "t_infer"} =>
              out[p] = <<"header", "model_saved", "vocab_saved">>
        /\ pc[p] = "t_load" =>
              /\ model_path[p] = ModelFileName
              /\ Loadable(fs[model_path[p]])
              /\ fs[model_path[p]].data = tflite_model[p]
        /\ pc[p] = "t_infer" =>
              /\ test_path[p] = ModelFileName
              /\ interpreter[p] = tflite_model[p]
        /\ pc[p] \in {"banner", "exited"} =>
              /\ test_path[p] = ModelFileName
              /\ SubSeq(out[p], 1, 3) = <<"header", "model_saved", "vocab_saved">>
              /\ out[p][4] \in {"inference_ok", "warning"}
        /\ pc[p] = "exited" => (Len(out[p]) = 5 /\ out[p][5] = "banner")

C5_Witness ==
    \E p \in Procs :
        /\ pc[p] = "exited"
        /\ run[p] = 2
        /\ out[p] = <<"header", "model_saved", "vocab_saved", "inference_ok", "banner">>

\* C6: when an invocation has built both files, the model's embedding table
\* has as many rows as vocab.txt has lines, so the vocabulary ids and the
\* embedding row indices are the same set.
C6_VocabMatchesEmbedding ==
    \A p \in Procs :
        pc[p] \in {"t_load", "t_infer", "banner"} =>
            LET rows == EmbeddingRows(fs[model_path[p]])
                n == LineCount(fs[vocab_path[p]].data)
            IN  /\ n = rows
                /\ \A id \in 0..(n - 1) : id < rows
                /\ \A r \in 0..(rows - 1) : r < n

C6_Witness ==
    \E p \in Procs :
        /\ pc[p] = "banner"
        /\ EmbeddingRows(fs[model_path[p]]) = 5000
        /\ LineCount(fs[vocab_path[p]].data) = 5000

\* C7: vocab.txt has the same number of lines after every run, and what a run
\* leaves is exactly the text it wrote: nothing of the earlier contents stays.
C7_SameLengthEveryRun ==
    /\ \A i, j \in 1..Len(hist.after) : hist.after[i] = hist.after[j]
    /\ VocabFileWritten =>
          \A p \in Procs :
              vocab_path[p] = VocabFileName => fs[VocabFileName].data = Join(vocab[p])

C7_Witness ==
    /\ Len(hist.after) = 2
    /\ hist.before = OldLines
    /\ VocabFileWritten

Category(name) == Keywords[CHOOSE k \in 1..Len(Keywords) : Keywords[k][1] = name][2]

FillerForms == {"token_" \o str(k) : k \in 0..4999}

\* C8: vocab.txt is the hand-authored tokens in category order (control, OTP,
\* banking, finance, offers, coupons, common words, the numerals 0..99), then
\* only fillers: line i is 'token_i' for every i from the hand-authored count
\* n to 4999, no filler comes before n, and fillers are the majority.
C8_Layout ==
    VocabFileWritten =>
        LET n == Len(HandAuthored)
            L == VocabLines
        IN
        /\ n < 5000
        /\ Len(L) = 5000
        /\ SubSeq(L, 1, n) =
              Category("special_tokens") \o Category("otp") \o Category("banking")
              \o Category("finance") \o Category("offers") \o Category("coupons")
              \o Category("common") \o Category("numbers")
        /\ \A i \in 0..99 : L[n - 100 + i + 1] = str(i)
        /\ \A i \in n..4999 : L[i + 1] = "token_" \o str(i)
        /\ \A i \in 0..(n - 1) : L[i + 1] \notin FillerForms
        /\ 2 * (5000 - n) > 5000

C8_Witness ==
    /\ VocabFileWritten
    /\ LET L == VocabLines IN L[186] = "token_185" /\ L[5000] = "token_4999"

\* C9: nothing makes an invocation wait for another: the smoke tester's load,
\* the opens that truncate the two files and the start of an invocation can
\* each be taken whatever the other invocation is doing.
C9_NothingGuardsTheFiles ==
    \A p \in Procs :
        /\ pc[p] = "t_load" => ENABLED TestLoad(p)
        /\ pc[p] = "m_open" => ENABLED ModelOpen(p)
        /\ pc[p] = "v_open" => ENABLED VocabOpen(p)
        /\ (~Running(p) /\ runs < MaxRuns) => ENABLED StartAnytime(p)

\* The race: an invocation's smoke tester has tried to load the model file
\* while the other invocation, having truncated it, has not yet written it.
C9_Witness ==
    \E p, q \in Procs :
        /\ p # q
        /\ pc[q] = "m_write"
        /\ fs[ModelFileName].data = <<>>
        /\ pc[p] = "banner"
        /\ err[p].fn = "test_model"
        /\ err[p].op = "Interpreter"
        /\ model_path[p] = ModelFileName

\* C10: the 5000 lines of vocab.txt are pairwise distinct and none is empty.
C10_NoDuplicateTokens ==
    VocabFileWritten =>
        LET L == VocabLines IN
        /\ Len(L) = 5000
        /\ Cardinality({L[i] : i \in 1..5000}) = 5000
        /\ \A i \in 1..5000 : L[i] # ""

C10_Witness ==
    /\ VocabFileWritten
    /\ LET L == VocabLines IN Cardinality({L[i] : i \in 1..Len(L)}) = 5000
    /\ hist.before = 3
====
